---- MODULE Spec2Model ----
(***************************************************************************)
(* Model of scripts/generate_loc_stats.py: repository discovery, the       *)
(* two-pass contributor-statistics fetch with the clone fallback, the      *)
(* per-repository cache update, the aggregation and the cache save.        *)
(***************************************************************************)
EXTENDS Integers, Sequences, FiniteSets, TLC

(***************************************************************************)
(* Bounds of the model                                                     *)
(***************************************************************************)
\* number of distinct week starts the remote API, the clone and a prior
\* cache can report
MaxWeeks == 1
\* number of pages one credential's repository listing can have
MaxPages == 2
\* number of repositories on one page of a listing
MaxPageLen == 1

(***************************************************************************)
(* Values                                                                  *)
(***************************************************************************)
\* Python's None, for the optional etag
None == "None"

\* RATE_LIMIT_FLOOR (line 35)
RATE_LIMIT_FLOOR == 100

\* TOKENS: the two labels, in dict order (lines 23-26)
TOKEN_LABELS == <<"personal", "LOME-AI">>

\* the value of the environment variable of a label when it is set
TokenOf(label) == IF label = "personal" THEN "tokP" ELSE "tokL"

\* the repositories of the model, in the order sorted() gives their
\* full names ('L' sorts before 'c')
REPO_ORDER == <<"LOME-AI/b", "ctf05/a">>

RepoNames == {REPO_ORDER[i] : i \in 1..Len(REPO_ORDER)}

\* the repository record of the listing endpoint: full_name and private
RepoRecord(n) == [full_name |-> n, private |-> (n = "LOME-AI/b")]

\* additions and deletions of one week: nothing, only additions, only
\* deletions
WeekCounts == {<<0, 0>>, <<1, 0>>, <<0, 2>>}

\* week starts: Mondays 00:00 UTC as Unix timestamps
WeekStart(i) == 345600 + (i - 1) * 604800

WeekStarts == {WeekStart(i) : i \in 1..MaxWeeks}

\* the time of the run: one week after the last week start of the model
Now == WeekStart(MaxWeeks) + 7 * 86400

\* week lists in ascending week order with at most one record per week
RECURSIVE WeekListsFrom(_)
WeekListsFrom(i) ==
    IF i > MaxWeeks THEN {<<>>}
    ELSE LET rest == WeekListsFrom(i + 1)
         IN  rest \cup {<<[w |-> WeekStart(i), a |-> c[1], d |-> c[2]]>> \o r :
                            c \in WeekCounts, r \in rest}

WeekLists == WeekListsFrom(1)

\* the week lists of a short history: no week, or the first week alone,
\* without changes or with additions
ShortLists == {<<>>, <<[w |-> WeekStart(1), a |-> 0, d |-> 0]>>,
               <<[w |-> WeekStart(1), a |-> 1, d |-> 0]>>}

(***************************************************************************)
(* str() and int() of a week start: the cache keys its weeks by the        *)
(* decimal string of the timestamp                                         *)
(***************************************************************************)
RECURSIVE StrOf(_)
StrOf(n) == IF n < 10 THEN <<n>> ELSE Append(StrOf(n \div 10), n % 10)

RECURSIVE IntOf(_)
IntOf(s) == IF Len(s) = 0 THEN 0
            ELSE 10 * IntOf(SubSeq(s, 1, Len(s) - 1)) + s[Len(s)]

RECURSIVE SumSeq(_, _)
SumSeq(s, field) == IF Len(s) = 0 THEN 0
                    ELSE s[1][field] + SumSeq(Tail(s), field)

\* the empty dict
EmptyDict == [k \in {} |-> 0]

\* d[k] = v on a dict
Put(f, k, v) == [x \in DOMAIN f \cup {k} |-> IF x = k THEN v ELSE f[x]]

(***************************************************************************)
(* _check_rate_limit (lines 68-81).  quota is the pair of rate-limit        *)
(* headers of a response; the result is the number of seconds slept.       *)
(***************************************************************************)
\* a response without the X-RateLimit-Remaining header
NoQuota == [present |-> FALSE, remaining |-> 0, reset |-> 0]

Max(a, b) == IF a >= b THEN a ELSE b

check_rate_limit(quota, now) ==
    IF quota.present /\ quota.remaining < RATE_LIMIT_FLOOR
    THEN Max(quota.reset - now, 1)
    ELSE 0

(***************************************************************************)
(* list_user_repos (lines 84-104).  pages is what the listing endpoint     *)
(* answers page after page; the last page carries no next link.  waited    *)
(* is the time slept in _check_rate_limit, called on every page received.  *)
(***************************************************************************)
RECURSIVE list_pages(_, _, _, _)
list_pages(pages, page, repos, waited) ==
    IF page > Len(pages)
    THEN [raised |-> "none", repos |-> repos, waited |-> waited]
    ELSE IF pages[page].kind = "conn_error"
         THEN [raised |-> "ConnectionError", repos |-> <<>>, waited |-> waited]
    ELSE LET slept == waited + check_rate_limit(pages[page].quota, Now)
         IN  IF pages[page].status >= 400
             THEN [raised |-> "HTTPError", repos |-> <<>>, waited |-> slept]
             ELSE list_pages(pages, page + 1, repos \o pages[page].repos, slept)

list_user_repos(pages) == list_pages(pages, 1, <<>>, 0)

(***************************************************************************)
(* get_contributor_stats (lines 107-143).  etag is the conditional token   *)
(* the caller passes, resp the answer of the statistics endpoint.  waited  *)
(* is the time slept in _check_rate_limit and warned the label its warning *)
(* was logged with ("" when it logged none); it is called at line 132 only. *)
(***************************************************************************)
get_contributor_stats(repo_full_name, etag, resp) ==
    LET waited(status) == IF status = 200 THEN check_rate_limit(resp.quota, Now)
                          ELSE 0
        ret(weeks, is_none, e, status) ==
            [raised |-> "none", is_none |-> is_none, weeks |-> weeks,
             etag |-> e, status |-> status, waited |-> waited(status),
             warned |-> IF waited(status) > 0 THEN repo_full_name ELSE ""]
        exc(e) == [raised |-> e, is_none |-> TRUE, weeks |-> <<>>,
                   etag |-> None, status |-> 0, waited |-> 0, warned |-> ""]
    IN  IF resp.kind = "conn_error" THEN exc("ConnectionError")
        ELSE IF resp.status = 304 THEN ret(<<>>, TRUE, etag, 304)
        ELSE IF resp.status = 202 THEN ret(<<>>, TRUE, resp.etag, 202)
        ELSE IF resp.status = 200
             THEN IF resp.has_user THEN ret(resp.weeks, FALSE, resp.etag, 200)
                  ELSE ret(<<>>, FALSE, resp.etag, 200)
        ELSE IF resp.status >= 400 THEN exc("HTTPError")
        ELSE ret(<<>>, TRUE, resp.etag, resp.status)

(***************************************************************************)
(* clone_and_count (lines 146-227).  outcome is what the two git commands  *)
(* do: both succeed and the log parses into weeks, one times out, one      *)
(* exits non-zero, or one cannot be started.                               *)
(***************************************************************************)
clone_and_count(outcome) ==
    IF outcome.kind = "ok" THEN [raised |-> "none", weeks |-> outcome.weeks]
    ELSE IF outcome.kind = "timeout" THEN [raised |-> "none", weeks |-> <<>>]
    ELSE IF outcome.kind = "failed" THEN [raised |-> "none", weeks |-> <<>>]
    ELSE [raised |-> "OSError", weeks |-> <<>>]

(***************************************************************************)
(* _process_repo (lines 357-416).  Every branch gives the cache it leaves, *)
(* whether clone_and_count was called and the exception that left the      *)
(* function, if any.                                                       *)
(***************************************************************************)
\* lines 406-409: the weeks of a cache entry, keyed by str(week start)
WeeksDict(weeks) ==
    [k \in {StrOf(weeks[i].w) : i \in DOMAIN weeks} |->
        LET i == CHOOSE i \in DOMAIN weeks :
                    /\ StrOf(weeks[i].w) = k
                    /\ \A j \in DOMAIN weeks : StrOf(weeks[j].w) = k => j <= i
        IN  [a |-> weeks[i].a, d |-> weeks[i].d]]

\* cached_repo.get("weeks") is truthy (line 398)
HasCachedWeeks(cache, full_name) ==
    /\ full_name \in DOMAIN cache.repos
    /\ DOMAIN cache.repos[full_name].weeks # {}

\* faulty variant: the repos mapping is rebuilt with the new entry alone
cache_update_alone(full_name, repo, cache, weeks, new_etag, now) ==
    [cache EXCEPT !.repos =
        Put(EmptyDict, full_name,
            [etag |-> new_etag, is_private |-> repo.private,
             weeks |-> WeeksDict(weeks), last_fetched |-> now])]

\* faulty variant: the new weeks are merged into the weeks of the old entry
cache_update_merges(full_name, repo, cache, weeks, new_etag, now) ==
    LET old == IF full_name \in DOMAIN cache.repos
               THEN cache.repos[full_name].weeks ELSE EmptyDict
        new == WeeksDict(weeks)
    IN  [cache EXCEPT !.repos =
            Put(cache.repos, full_name,
                [etag |-> new_etag, is_private |-> repo.private,
                 weeks |-> [k \in DOMAIN old \cup DOMAIN new |->
                               IF k \in DOMAIN new THEN new[k] ELSE old[k]],
                 last_fetched |-> now])]

\* lines 404-416 (and 388-393 for the empty list): the entry is replaced
cache_update(full_name, repo, cache, weeks, new_etag, now) ==
    [cache EXCEPT !.repos =
        Put(cache.repos, full_name,
            [etag |-> new_etag, is_private |-> repo.private,
             weeks |-> WeeksDict(weeks), last_fetched |-> now])]

\* faulty variant: a cache hit refreshes last_fetched
cache_hit_refreshes(full_name, cache, now) ==
    [cache |-> IF full_name \in DOMAIN cache.repos
               THEN [cache EXCEPT !.repos[full_name].last_fetched = now]
               ELSE cache,
     cloned |-> FALSE, raised |-> "none"]

\* lines 370-374: 304, nothing is written
cache_hit(full_name, cache, now) ==
    [cache |-> cache, cloned |-> FALSE, raised |-> "none"]

\* lines 377-380: the totals of the week list are both zero
AllZero(weeks) == SumSeq(weeks, "a") = 0 /\ SumSeq(weeks, "d") = 0

\* faulty variant: an empty clone result is not written ("if weeks:")
clone_fallback_drops_empty(full_name, repo, cache, new_etag, outcome, now) ==
    LET clone == clone_and_count(outcome)
    IN  IF clone.raised # "none"
        THEN [cache |-> cache, cloned |-> TRUE, raised |-> clone.raised]
        ELSE IF clone.weeks = <<>>
        THEN [cache |-> cache, cloned |-> TRUE, raised |-> "none"]
        ELSE [cache |-> cache_update(full_name, repo, cache, clone.weeks, new_etag, now),
              cloned |-> TRUE, raised |-> "none"]

\* lines 382 and 402, then 404-416: the clone's weeks replace the entry
clone_fallback(full_name, repo, cache, new_etag, outcome, now) ==
    LET clone == clone_and_count(outcome)
    IN  IF clone.raised # "none"
        THEN [cache |-> cache, cloned |-> TRUE, raised |-> clone.raised]
        ELSE [cache |-> cache_update(full_name, repo, cache, clone.weeks, new_etag, now),
              cloned |-> TRUE, raised |-> "none"]

\* faulty variant: the clone runs but the all-zero weeks of the API are written
ready_weeks_keeps_api(full_name, repo, cache, weeks, new_etag, outcome, now) ==
    IF AllZero(weeks)
    THEN LET clone == clone_and_count(outcome)
         IN  IF clone.raised # "none"
             THEN [cache |-> cache, cloned |-> TRUE, raised |-> clone.raised]
             ELSE [cache |-> cache_update(full_name, repo, cache, weeks, new_etag, now),
                   cloned |-> TRUE, raised |-> "none"]
    ELSE [cache |-> cache_update(full_name, repo, cache, weeks, new_etag, now),
          cloned |-> FALSE, raised |-> "none"]

\* lines 376-384, then 404-416: a non-empty week list
ready_weeks(full_name, repo, cache, weeks, new_etag, outcome, now) ==
    IF AllZero(weeks)
    THEN clone_fallback(full_name, repo, cache, new_etag, outcome, now)
    ELSE [cache |-> cache_update(full_name, repo, cache, weeks, new_etag, now),
          cloned |-> FALSE, raised |-> "none"]

\* lines 386-394: the identity has no commits
no_commits(full_name, repo, cache, new_etag, now) ==
    [cache |-> cache_update(full_name, repo, cache, <<>>, new_etag, now),
     cloned |-> FALSE, raised |-> "none"]

\* faulty variant: the cached weeks are not looked at
not_ready_always_clones(full_name, repo, cache, new_etag, outcome, now) ==
    clone_fallback(full_name, repo, cache, new_etag, outcome, now)

\* lines 396-402, then 404-416: weeks is None and the status is not 304
not_ready(full_name, repo, cache, new_etag, outcome, now) ==
    IF HasCachedWeeks(cache, full_name)
    THEN [cache |-> cache, cloned |-> FALSE, raised |-> "none"]
    ELSE clone_fallback(full_name, repo, cache, new_etag, outcome, now)

process_repo(full_name, repo, cache, weeks, is_none, new_etag, status, outcome, now) ==
    IF status = 304 THEN cache_hit(full_name, cache, now)
    ELSE IF ~is_none /\ Len(weeks) > 0
         THEN ready_weeks(full_name, repo, cache, weeks, new_etag, outcome, now)
    ELSE IF ~is_none /\ Len(weeks) = 0
         THEN no_commits(full_name, repo, cache, new_etag, now)
    ELSE not_ready(full_name, repo, cache, new_etag, outcome, now)

(***************************************************************************)
(* The conditional token of a statistics call                              *)
(***************************************************************************)
\* lines 476-477: pass 1 sends the etag of the cached entry, if any
pass1_etag(cache, full_name) ==
    IF full_name \in DOMAIN cache.repos THEN cache.repos[full_name].etag ELSE None

\* faulty variant: pass 2 sends the cached etag like pass 1
pass2_etag_cached(cache, full_name) == pass1_etag(cache, full_name)

\* line 496: pass 2 calls get_contributor_stats without an etag
pass2_etag(cache, full_name) == None

(***************************************************************************)
(* load_cache (lines 235-242) and main's lines 438-440                     *)
(***************************************************************************)
\* the file is absent or json.load raises JSONDecodeError: {}; otherwise
\* whatever JSON value the file holds, a mapping or not
load_cache(file) ==
    IF file.kind = "json" THEN [type |-> "dict", value |-> file.data]
    ELSE IF file.kind = "json_list" THEN [type |-> "list", value |-> EmptyDict]
    ELSE [type |-> "dict", value |-> EmptyDict]

\* lines 439-440: cache["repos"] = {} on a list raises TypeError
with_repos(loaded) ==
    IF loaded.type # "dict"
    THEN [raised |-> "TypeError", cache |-> [repos |-> EmptyDict]]
    ELSE IF "repos" \in DOMAIN loaded.value
    THEN [raised |-> "none", cache |-> loaded.value]
    ELSE [raised |-> "none", cache |-> Put(loaded.value, "repos", EmptyDict)]

(***************************************************************************)
(* compute_timeframes (lines 257-284)                                      *)
(***************************************************************************)
\* TIME_FRAMES (lines 37-42): label and days, in dict order
TIME_FRAMES == <<[label |-> "All Time", days |-> 0],
                 [label |-> "Last Year", days |-> 365],
                 [label |-> "Last Month", days |-> 30],
                 [label |-> "Last Week", days |-> 7]>>

\* faulty variant: the unbounded window gets a boundary like the others
Boundary_always_bounded(days, now) == now.sec - days * 86400

\* lines 261-265; now is the clock reading, whole seconds and the half
\* second past them, and int() of the timestamp drops the fraction
Boundary(days, now) == IF days = 0 THEN 0 ELSE now.sec - days * 86400

\* all (repository, week key) pairs of the cache
Buckets(cache) ==
    UNION {{<<n, k>> : k \in DOMAIN cache.repos[n].weeks} : n \in DOMAIN cache.repos}

\* faulty variant: the week at the boundary is left out
RECURSIVE SumBuckets_strict(_, _, _, _)
SumBuckets_strict(cache, bs, field, start_ts) ==
    IF bs = {} THEN 0
    ELSE LET b == CHOOSE x \in bs : TRUE
             v == IF IntOf(b[2]) > start_ts
                  THEN cache.repos[b[1]].weeks[b[2]][field] ELSE 0
         IN  v + SumBuckets_strict(cache, bs \ {b}, field, start_ts)

\* lines 269-277: the sum of one field over the weeks not before start_ts
RECURSIVE SumBuckets(_, _, _, _)
SumBuckets(cache, bs, field, start_ts) ==
    IF bs = {} THEN 0
    ELSE LET b == CHOOSE x \in bs : TRUE
             v == IF IntOf(b[2]) >= start_ts
                  THEN cache.repos[b[1]].weeks[b[2]][field] ELSE 0
         IN  v + SumBuckets(cache, bs \ {b}, field, start_ts)

compute_timeframes(cache, now) ==
    [i \in DOMAIN TIME_FRAMES |->
        LET start_ts == Boundary(TIME_FRAMES[i].days, now)
            adds == SumBuckets(cache, Buckets(cache), "a", start_ts)
            dels == SumBuckets(cache, Buckets(cache), "d", start_ts)
        IN  [label |-> TIME_FRAMES[i].label, additions |-> adds,
             deletions |-> dels, total |-> adds + dels]]

(***************************************************************************)
(* The environment: what the remote API, git and the file system can do    *)
(***************************************************************************)
\* the ETag header of a response, when it has one
ResponseETags == {"e1"}

\* one page of the listing endpoint, over the repositories that exist
PageLists(names) == UNION {[1..n -> names] : n \in 0..MaxPageLen}

Pages(names, quotas) ==
    {[kind |-> "conn_error", status |-> 0, repos |-> <<>>, quota |-> NoQuota]}
    \cup {[kind |-> "response", status |-> 401, repos |-> <<>>, quota |-> q] :
              q \in quotas}
    \cup {[kind |-> "response", status |-> 200,
           repos |-> [i \in DOMAIN l |-> RepoRecord(l[i])], quota |-> q] :
              l \in PageLists(names), q \in quotas}

PageSeqs(names, quotas) ==
    UNION {[1..n -> Pages(names, quotas)] : n \in 1..MaxPages}

\* the rate-limit headers a response can carry: none, a quota just below the
\* floor with the reset ahead or already past, a quota at the floor
LowQuotas ==
    {NoQuota,
     [present |-> TRUE, remaining |-> RATE_LIMIT_FLOOR - 1, reset |-> Now + 30],
     [present |-> TRUE, remaining |-> RATE_LIMIT_FLOOR - 1, reset |-> 0],
     [present |-> TRUE, remaining |-> RATE_LIMIT_FLOOR, reset |-> Now + 30]}

\* the answers of the statistics endpoint to a request that sent etag, over
\* the week lists the histories can give
Responses(etag, lists, quotas) ==
    {[kind |-> "conn_error", status |-> 0, etag |-> None, has_user |-> FALSE,
      weeks |-> <<>>, quota |-> NoQuota]}
    \cup {[kind |-> "response", status |-> 200, etag |-> e, has_user |-> TRUE,
           weeks |-> ws, quota |-> q] :
              e \in ResponseETags, ws \in lists, q \in quotas}
    \cup {[kind |-> "response", status |-> 200, etag |-> e, has_user |-> FALSE,
           weeks |-> <<>>, quota |-> q] : e \in ResponseETags, q \in quotas}
    \cup {[kind |-> "response", status |-> st, etag |-> None, has_user |-> FALSE,
           weeks |-> <<>>, quota |-> q] : st \in {202, 204, 500}, q \in quotas}
    \cup (IF etag = None THEN {}
          ELSE {[kind |-> "response", status |-> 304, etag |-> e,
                 has_user |-> FALSE, weeks |-> <<>>, quota |-> q] :
                    e \in ResponseETags, q \in quotas})

\* what the clone and the log can do
CloneOutcomes(lists) ==
    {[kind |-> "ok", weeks |-> ws] : ws \in lists}
    \cup {[kind |-> k, weeks |-> <<>>] : k \in {"timeout", "failed", "oserror"}}

\* a cache entry an earlier run left for a repository
PriorEntries(n, lists) ==
    {[etag |-> "e0", is_private |-> RepoRecord(n).private,
      weeks |-> WeeksDict(ws), last_fetched |-> 0] : ws \in lists}

\* the repos mappings an earlier run can have saved
PriorRepos(lists) ==
    UNION {{f \in [S -> UNION {PriorEntries(n, lists) : n \in S}] :
                \A n \in S : f[n] \in PriorEntries(n, lists)} : S \in SUBSET RepoNames}

\* the cache file before the run: absent, not parseable, a JSON list, or the
\* cache an earlier run saved
Files(lists) ==
    {[kind |-> "absent", data |-> EmptyDict], [kind |-> "corrupt", data |-> EmptyDict],
     [kind |-> "json_list", data |-> EmptyDict]}
    \cup {[kind |-> "json", data |-> [repos |-> r, last_updated |-> 0]] :
              r \in PriorRepos(lists)}

\* the configurations of the two token variables
TokenConfigs ==
    {t \in [{TOKEN_LABELS[i] : i \in DOMAIN TOKEN_LABELS} -> {"", "tokP", "tokL"}] :
        \A l \in DOMAIN t : t[l] \in {"", TokenOf(l)}}

(***************************************************************************)
(* State                                                                   *)
(***************************************************************************)
VARIABLES
    pc,            \* where main is
    TOKENS,        \* label -> token, "" when the variable is not set
    file,          \* the cache file
    cache0,        \* the cache as loaded at the start of the run
    cache,         \* the cache of the run
    active_tokens, \* the labels of the configured tokens, in order
    tok,           \* index of the credential being listed
    all_repos,     \* full_name -> (repo, token, label)
    idx,           \* index of the repository being handled in the pass
    pending_202,   \* the repositories queued for pass 2
    last,          \* the last statistics call and what was done with it
    status1,       \* per repository: the answer of pass 1 (0: none)
    status2,       \* per repository: the answer of pass 2 (0: none)
    clones,        \* per repository: the calls of clone_and_count
    sleeps,        \* the number of pass-2 waits
    exc,           \* the exception that ended main, and where
    stats,         \* the result of compute_timeframes
    svg,           \* the statistics written to the SVG file
    remote,        \* the remote side: its repositories, histories and quotas
    listing,       \* the call of list_user_repos of the listing loop and its result
    private_counter, \* the number of redacted display names handed out
    probe,         \* a function applied on its own: its input and its result
    requests       \* per repository: the statistics requests of pass 1 and pass 2

vars == <<pc, TOKENS, file, cache0, cache, active_tokens, tok, all_repos, idx,
          pending_202, last, status1, status2, clones, sleeps, exc, stats, svg,
          remote, listing, private_counter, probe, requests>>

\* the clock when main reads it
Clock == {[sec |-> Now, half |-> h] : h \in {0, 1}}

\* no function is applied on its own
NoProbe == [kind |-> "none", cache |-> [repos |-> EmptyDict], now |-> [sec |-> 0, half |-> 0],
            stats |-> <<>>, lines |-> <<>>, weeks |-> <<>>]

\* the display name of no repository
NoDisplay == [redacted |-> FALSE, n |-> 0, name |-> ""]

NoCall == [pass |-> 0, full_name |-> "", sent_etag |-> None, resp_status |-> 0,
           raised |-> "none", is_none |-> TRUE, weeks |-> <<>>, etag |-> None,
           status |-> 0, cloned |-> FALSE, clone_kind |-> "none",
           clone_weeks |-> <<>>, quota |-> NoQuota, waited |-> 0, warned |-> "",
           display |-> NoDisplay]

NoExc == [type |-> "none", at |-> "none"]

NoStats == <<>>

NoListing == [label |-> "", raised |-> "none", repos |-> <<>>, waited |-> 0]

\* the cache before load_cache has run
NoCache == [repos |-> EmptyDict]

Start ==
    /\ pc = "start"
    /\ cache0 = NoCache
    /\ cache = NoCache
    /\ listing = NoListing
    /\ active_tokens = <<>>
    /\ tok = 1
    /\ all_repos = EmptyDict
    /\ idx = 1
    /\ pending_202 = <<>>
    /\ last = NoCall
    /\ status1 = [n \in RepoNames |-> 0]
    /\ status2 = [n \in RepoNames |-> 0]
    /\ clones = [n \in RepoNames |-> 0]
    /\ requests = [n \in RepoNames |-> <<0, 0>>]
    /\ sleeps = 0
    /\ exc = NoExc
    /\ stats = NoStats
    /\ svg = NoStats
    /\ private_counter = 0

\* every repository exists, with a short history; any token configuration
Init ==
    /\ Start
    /\ remote = [repos |-> RepoNames, lists |-> ShortLists, quotas |-> {NoQuota}]
    /\ probe = NoProbe
    /\ TOKENS \in TokenConfigs
    /\ file \in Files(remote.lists)

\* one repository exists, with a history of up to MaxWeeks weeks; the cache
\* may still hold the other one; both tokens are configured
InitRepo ==
    /\ Start
    /\ remote = [repos |-> {"ctf05/a"}, lists |-> WeekLists, quotas |-> {NoQuota}]
    /\ probe = NoProbe
    /\ TOKENS \in {t \in TokenConfigs : \A l \in DOMAIN t : t[l] # ""}
    /\ file \in Files(remote.lists)

\* the private repository alone, with a short history; the responses carry
\* rate-limit headers around the floor; both tokens are configured
InitQuota ==
    /\ Start
    /\ remote = [repos |-> {"LOME-AI/b"}, lists |-> ShortLists, quotas |-> LowQuotas]
    /\ probe = NoProbe
    /\ TOKENS \in {t \in TokenConfigs : \A l \in DOMAIN t : t[l] # ""}
    /\ file \in Files(remote.lists)

(***************************************************************************)
(* main (lines 419-529)                                                    *)
(***************************************************************************)
\* lines 426-436
ValidateTokens ==
    /\ pc = "start"
    /\ active_tokens' = SelectSeq(TOKEN_LABELS, LAMBDA l : TOKENS[l] # "")
    /\ pc' = IF active_tokens' = <<>> THEN "exit" ELSE "load"
    /\ UNCHANGED <<TOKENS, file, cache0, cache, tok, all_repos, idx, pending_202,
                   last, status1, status2, clones, sleeps, exc, stats, svg, remote, listing, private_counter, probe, requests>>

\* lines 438-440
LoadCache ==
    /\ pc = "load"
    /\ LET loaded == with_repos(load_cache(file))
       IN  IF loaded.raised # "none"
           THEN /\ pc' = "aborted"
                /\ exc' = [type |-> loaded.raised, at |-> "load"]
                /\ UNCHANGED <<cache, cache0>>
           ELSE /\ cache' = loaded.cache
                /\ cache0' = cache'
                /\ pc' = "discover"
                /\ UNCHANGED exc
    /\ UNCHANGED <<TOKENS, file, active_tokens, tok, all_repos, idx, pending_202,
                   last, status1, status2, clones, sleeps, stats, svg, remote, listing, private_counter, probe, requests>>

\* faulty variant: the last listing wins
RECURSIVE collect_last_wins(_, _, _, _)
collect_last_wins(repos_by_name, repos, token, label) ==
    IF repos = <<>> THEN repos_by_name
    ELSE collect_last_wins(Put(repos_by_name, Head(repos).full_name,
                               [repo |-> Head(repos), token |-> token,
                                label |-> label]),
                           Tail(repos), token, label)

\* lines 453-456: first seen wins
RECURSIVE collect(_, _, _, _)
collect(repos_by_name, repos, token, label) ==
    IF repos = <<>> THEN repos_by_name
    ELSE LET repo == Head(repos)
             full_name == repo.full_name
             next == IF full_name \notin DOMAIN repos_by_name
                     THEN Put(repos_by_name, full_name,
                              [repo |-> repo, token |-> token, label |-> label])
                     ELSE repos_by_name
         IN  collect(next, Tail(repos), token, label)

\* lines 444-456: one credential's listing
Discover ==
    /\ pc = "discover"
    /\ tok <= Len(active_tokens)
    /\ \E pages \in PageSeqs(remote.repos, remote.quotas) :
         LET label == active_tokens[tok]
             token == TOKENS[label]
             listed == list_user_repos(pages)
         IN  /\ listing' = [label |-> label, raised |-> listed.raised,
                            repos |-> listed.repos, waited |-> listed.waited]
             /\ IF listed.raised = "HTTPError"
                THEN /\ tok' = tok + 1
                     /\ UNCHANGED <<pc, all_repos, exc>>
                ELSE IF listed.raised # "none"
                THEN /\ pc' = "aborted"
                     /\ exc' = [type |-> listed.raised, at |-> "discover"]
                     /\ UNCHANGED <<tok, all_repos>>
                ELSE /\ all_repos' = collect(all_repos, listed.repos, token, label)
                     /\ tok' = tok + 1
                     /\ UNCHANGED <<pc, exc>>
    /\ UNCHANGED <<TOKENS, file, cache0, cache, active_tokens, idx, pending_202,
                   last, status1, status2, clones, sleeps, stats, svg, remote, private_counter, probe, requests>>

\* the listing loop ends and its locals are dead; lines 458-472
DiscoverDone ==
    /\ pc = "discover"
    /\ tok > Len(active_tokens)
    /\ pc' = "pass1"
    /\ idx' = 1
    /\ listing' = NoListing
    /\ UNCHANGED <<TOKENS, file, cache0, cache, active_tokens, tok, all_repos,
                   pending_202, last, status1, status2, clones, sleeps, exc, stats,
                   svg, remote, private_counter, probe, requests>>

\* sorted(all_repos.items()) (line 474)
Sorted(names) == SelectSeq(REPO_ORDER, LAMBDA n : n \in names)

\* _display_name (lines 349-354): the name a repository is logged under and
\* the counter after the call
display_name(repo, counter) ==
    IF repo.private
    THEN [display |-> [redacted |-> TRUE, n |-> counter + 1, name |-> ""],
          counter |-> counter + 1]
    ELSE [display |-> [redacted |-> FALSE, n |-> 0, name |-> repo.full_name],
          counter |-> counter]

\* what one statistics call and its processing recorded
Call(pass, full_name, sent_etag, resp, ret, done, outcome, display) ==
    [pass |-> pass, full_name |-> full_name, sent_etag |-> sent_etag,
     quota |-> resp.quota, waited |-> ret.waited, warned |-> ret.warned,
     display |-> display,
     resp_status |-> resp.status, raised |-> ret.raised, is_none |-> ret.is_none,
     weeks |-> ret.weeks, etag |-> ret.etag, status |-> ret.status,
     cloned |-> done.cloned,
     clone_kind |-> IF done.cloned THEN outcome.kind ELSE "none",
     clone_weeks |-> IF done.cloned THEN clone_and_count(outcome).weeks ELSE <<>>]

NotProcessed(c) == [cache |-> c, cloned |-> FALSE, raised |-> "none"]

\* the status a repository is recorded with: the returned status, or the
\* status of the response that raised, or -1 for no response at all
Seen(resp, ret) == IF ret.raised = "none" THEN ret.status
                   ELSE IF resp.kind = "conn_error" THEN -1 ELSE resp.status

\* the clone's outcome is drawn only when clone_and_count is called
NoClone == [kind |-> "none", weeks |-> <<>>]

OutcomesFor(called, lists) == IF called THEN CloneOutcomes(lists) ELSE {NoClone}

\* one statistics call of a pass and the processing of its result: lines
\* 479-485 in pass 1, lines 496-501 in pass 2
Handle(pass, full_name, etag, display) ==
    LET repo == all_repos[full_name].repo
    IN  \E resp \in Responses(etag, remote.lists, remote.quotas) :
          LET ret == get_contributor_stats(full_name, etag, resp)
              queued == pass = 1 /\ ret.status = 202
              processed == ret.raised = "none" /\ ~queued
              called == processed /\
                        process_repo(full_name, repo, cache, ret.weeks, ret.is_none,
                                     ret.etag, ret.status, NoClone, Now).cloned
          IN  \E outcome \in OutcomesFor(called, remote.lists) :
                LET done == IF processed
                            THEN process_repo(full_name, repo, cache, ret.weeks,
                                              ret.is_none, ret.etag, ret.status,
                                              outcome, Now)
                            ELSE NotProcessed(cache)
                IN  /\ last' = Call(pass, full_name, etag, resp, ret, done, outcome,
                                     display)
                    /\ status1' = IF pass = 1
                                  THEN [status1 EXCEPT ![full_name] = Seen(resp, ret)]
                                  ELSE status1
                    /\ status2' = IF pass = 2
                                  THEN [status2 EXCEPT ![full_name] = Seen(resp, ret)]
                                  ELSE status2
                    /\ requests' = [requests EXCEPT ![full_name][pass] = @ + 1]
                    /\ clones' = [clones EXCEPT ![full_name] =
                                      @ + (IF done.cloned THEN 1 ELSE 0)]
                    /\ cache' = done.cache
                    /\ pending_202' = IF ret.raised = "none" /\ queued
                                      THEN Append(pending_202,
                                                  [full_name |-> full_name,
                                                   display |-> display,
                                                   etag |-> ret.etag])
                                      ELSE pending_202
                    /\ IF ret.raised # "none"
                       THEN /\ pc' = "aborted"
                            /\ exc' = [type |-> ret.raised,
                                       at |-> IF pass = 1 THEN "stats1" ELSE "stats2"]
                            /\ UNCHANGED idx
                       ELSE IF done.raised # "none"
                       THEN /\ pc' = "aborted"
                            /\ exc' = [type |-> done.raised,
                                       at |-> IF pass = 1 THEN "clone1" ELSE "clone2"]
                            /\ UNCHANGED idx
                       ELSE /\ idx' = idx + 1
                            /\ UNCHANGED <<pc, exc>>

\* lines 474-485: one repository of pass 1
Pass1 ==
    /\ pc = "pass1"
    /\ idx <= Len(Sorted(DOMAIN all_repos))
    /\ LET full_name == Sorted(DOMAIN all_repos)[idx]
           named == display_name(all_repos[full_name].repo, private_counter)
       IN  /\ private_counter' = named.counter
           /\ Handle(1, full_name, pass1_etag(cache, full_name), named.display)
    /\ UNCHANGED <<TOKENS, file, cache0, active_tokens, tok, all_repos,
                   sleeps, stats, svg, remote, listing, probe>>

\* lines 490-493: pass 1 is over; the wait when something is pending
Pass1Done ==
    /\ pc = "pass1"
    /\ idx > Len(Sorted(DOMAIN all_repos))
    /\ IF pending_202 # <<>>
       THEN /\ sleeps' = sleeps + 1
            /\ pc' = "pass2"
       ELSE /\ pc' = "summary"
            /\ UNCHANGED sleeps
    /\ idx' = 1
    /\ UNCHANGED <<TOKENS, file, cache0, cache, active_tokens, tok, all_repos,
                   pending_202, last, status1, status2, clones, exc, stats, svg, remote, listing, private_counter, probe, requests>>

\* lines 495-501: one repository of pass 2, fetched without a token
Pass2 ==
    /\ pc = "pass2"
    /\ idx <= Len(pending_202)
    /\ Handle(2, pending_202[idx].full_name,
              pass2_etag(cache, pending_202[idx].full_name), pending_202[idx].display)
    /\ UNCHANGED <<TOKENS, file, cache0, active_tokens, tok, all_repos,
                   sleeps, stats, svg, remote, listing, private_counter, probe>>

\* the loop of pass 2 ends
Pass2Done ==
    /\ pc = "pass2"
    /\ idx > Len(pending_202)
    /\ pc' = "summary"
    /\ UNCHANGED <<TOKENS, file, cache0, cache, active_tokens, tok, all_repos, idx,
                   pending_202, last, status1, status2, clones, sleeps, exc, stats, svg, remote, listing, private_counter, probe, requests>>

\* lines 503-524: the aggregate and the SVG file
Summarize ==
    /\ pc = "summary"
    /\ \E now \in Clock : stats' = compute_timeframes(cache, now)
    /\ svg' = stats'
    /\ pc' = "save"
    /\ UNCHANGED <<TOKENS, file, cache0, cache, active_tokens, tok, all_repos, idx,
                   pending_202, last, status1, status2, clones, sleeps, exc, remote, listing, private_counter, probe, requests>>

\* save_cache (lines 245-248), called at line 527: last_updated is set and
\* open(CACHE_PATH, "w") truncates the file
SaveOpen ==
    /\ pc = "save"
    /\ cache' = Put(cache, "last_updated", Now)
    /\ file' = [kind |-> "truncated", data |-> EmptyDict]
    /\ pc' = "saving"
    /\ UNCHANGED <<TOKENS, cache0, active_tokens, tok, all_repos, idx, pending_202,
                   last, status1, status2, clones, sleeps, exc, stats, svg, remote,
                   listing, private_counter, probe, requests>>

\* save_cache (line 249): json.dump has written the whole cache
SaveCache ==
    /\ pc = "saving"
    /\ file' = [kind |-> "json", data |-> cache]
    /\ pc' = "done"
    /\ UNCHANGED <<TOKENS, cache, cache0, active_tokens, tok, all_repos, idx, pending_202,
                   last, status1, status2, clones, sleeps, exc, stats, svg, remote, listing, private_counter, probe, requests>>

Next ==
    \/ ValidateTokens
    \/ LoadCache
    \/ Discover
    \/ DiscoverDone
    \/ Pass1
    \/ Pass1Done
    \/ Pass2
    \/ Pass2Done
    \/ Summarize
    \/ SaveOpen
    \/ SaveCache

Spec == Init /\ [][Next]_vars

SpecRepo == InitRepo /\ [][Next]_vars

SpecQuota == InitQuota /\ [][Next]_vars

(***************************************************************************)
(* compute_timeframes applied on its own, to every cache of a few weeks    *)
(* and every clock reading around the boundaries of the windows            *)
(***************************************************************************)
\* number of distinct week starts a cache of the aggregation can hold
MaxAggWeeks == 2

\* additions and deletions of a cached week
AggCounts == {<<1, 2>>, <<4, 0>>}

\* the weeks mappings of a cache entry
AggWeeks ==
    UNION {[{StrOf(WeekStart(i)) : i \in S} ->
                {[a |-> c[1], d |-> c[2]] : c \in AggCounts}] :
           S \in SUBSET (1..MaxAggWeeks)}

AggEntries(n) ==
    {[etag |-> "e0", is_private |-> RepoRecord(n).private, weeks |-> w,
      last_fetched |-> 0] : w \in AggWeeks}

AggCaches ==
    {[repos |-> r, last_updated |-> 0] :
        r \in UNION {{f \in [S -> UNION {AggEntries(n) : n \in S}] :
                         \A n \in S : f[n] \in AggEntries(n)} :
                     S \in SUBSET RepoNames}}

\* clock readings one second before, at and one second after the moment a
\* week start is exactly a window's span ago
AggNows ==
    {[sec |-> WeekStart(i) + TIME_FRAMES[f].days * 86400 + delta - 1, half |-> h] :
        i \in 1..MaxAggWeeks, f \in {f \in DOMAIN TIME_FRAMES : TIME_FRAMES[f].days > 0},
        delta \in 0..2, h \in {0, 1}}

\* the variables of main
main_vars == <<pc, TOKENS, file, cache0, cache, active_tokens, tok, all_repos, idx,
               pending_202, last, status1, status2, clones, sleeps, exc, stats, svg,
               remote, listing, private_counter, requests>>

InitAgg ==
    /\ Start
    /\ remote = [repos |-> {}, lists |-> {<<>>}, quotas |-> {NoQuota}]
    /\ TOKENS = [l \in {TOKEN_LABELS[i] : i \in DOMAIN TOKEN_LABELS} |-> TokenOf(l)]
    /\ file = [kind |-> "absent", data |-> EmptyDict]
    /\ probe \in {[NoProbe EXCEPT !.kind = "agg_in", !.cache = c, !.now = t] :
                      c \in AggCaches, t \in AggNows}

\* compute_timeframes(cache) at the clock reading now
Aggregate ==
    /\ probe.kind = "agg_in"
    /\ probe' = [probe EXCEPT !.kind = "agg_out",
                              !.stats = compute_timeframes(probe.cache, probe.now)]
    /\ UNCHANGED main_vars

NextAgg == Aggregate

SpecAgg == InitAgg /\ [][NextAgg]_vars

(***************************************************************************)
(* The parsing of the git log output in clone_and_count (lines 181-215),   *)
(* applied on its own to every output of a few lines.  A line is the list  *)
(* of its tab-separated parts after strip(); a part is a run of digits, a  *)
(* "-" or some other text.                                                 *)
(***************************************************************************)
\* number of lines of a git log output
MaxLines == 5

Num(n) == [t |-> "int", v |-> n]

Dash == [t |-> "dash", v |-> 0]

Text == [t |-> "text", v |-> 0]

\* author timestamps: the last second of a week, the first second of the
\* next week and its last second
LogTimes == {WeekStart(2) - 1, WeekStart(2), WeekStart(3) - 1}

\* an empty line, a timestamp line, and numstat lines of a text file, of a
\* file with a binary count and of a file with a count that is no number
LogLines ==
    {[parts |-> <<>>]}
    \cup {[parts |-> <<Num(ts)>>] : ts \in LogTimes}
    \cup {[parts |-> <<p[1], p[2], Text>>] :
              p \in {<<Num(1), Num(2)>>, <<Dash, Num(5)>>, <<Num(4), Text>>}}

LogOutputs == UNION {[1..n -> LogLines] : n \in 0..MaxLines}

\* faulty variant: weeks start on Sunday
week_ts_sunday(current_ts) ==
    LET days == current_ts \div 86400
        weekday == (days + 4) % 7
    IN  (days - weekday) * 86400

\* lines 203-205: the day of the timestamp, its weekday (Monday is 0 and
\* 1970-01-01 was a Thursday), the Monday of its week at 00:00:00 UTC
week_ts(current_ts) ==
    LET days == current_ts \div 86400
        weekday == (days + 3) % 7
    IN  (days - weekday) * 86400

\* lines 196-201: int(part) if part != "-" else 0; int raises ValueError on
\* other text
parse_count(part) ==
    IF part.t = "dash" THEN [raised |-> FALSE, v |-> 0]
    ELSE IF part.t = "int" THEN [raised |-> FALSE, v |-> part.v]
    ELSE [raised |-> TRUE, v |-> 0]

\* lines 185-209: the loop over the lines
RECURSIVE parse_lines(_, _, _, _)
parse_lines(lines, i, current_ts, weekly) ==
    IF i > Len(lines) THEN weekly
    ELSE LET parts == lines[i].parts
         IN  IF Len(parts) = 0
             THEN parse_lines(lines, i + 1, current_ts, weekly)
             ELSE IF Len(parts) = 1 /\ parts[1].t = "int"
             THEN parse_lines(lines, i + 1, [set |-> TRUE, ts |-> parts[1].v], weekly)
             ELSE IF Len(parts) >= 3 /\ current_ts.set
             THEN LET adds == parse_count(parts[1])
                      dels == parse_count(parts[2])
                      k == week_ts(current_ts.ts)
                      old == IF k \in DOMAIN weekly THEN weekly[k]
                             ELSE [a |-> 0, d |-> 0]
                  IN  IF adds.raised \/ dels.raised
                      THEN parse_lines(lines, i + 1, current_ts, weekly)
                      ELSE parse_lines(lines, i + 1, current_ts,
                                       Put(weekly, k, [a |-> old.a + adds.v,
                                                       d |-> old.d + dels.v]))
             ELSE parse_lines(lines, i + 1, current_ts, weekly)

\* line 211: sorted(weekly.items()) as week records
RECURSIVE sorted_weeks(_)
sorted_weeks(weekly) ==
    IF DOMAIN weekly = {} THEN <<>>
    ELSE LET k == CHOOSE x \in DOMAIN weekly : \A y \in DOMAIN weekly : x <= y
         IN  <<[w |-> k, a |-> weekly[k].a, d |-> weekly[k].d]>>
             \o sorted_weeks([x \in DOMAIN weekly \ {k} |-> weekly[x]])

parse_log(lines) ==
    sorted_weeks(parse_lines(lines, 1, [set |-> FALSE, ts |-> 0], EmptyDict))

InitLog ==
    /\ Start
    /\ remote = [repos |-> {}, lists |-> {<<>>}, quotas |-> {NoQuota}]
    /\ TOKENS = [l \in {TOKEN_LABELS[i] : i \in DOMAIN TOKEN_LABELS} |-> TokenOf(l)]
    /\ file = [kind |-> "absent", data |-> EmptyDict]
    /\ probe \in {[NoProbe EXCEPT !.kind = "log_in", !.lines = l] : l \in LogOutputs}

\* the parse of one output
ParseLog ==
    /\ probe.kind = "log_in"
    /\ probe' = [probe EXCEPT !.kind = "log_out", !.weeks = parse_log(probe.lines)]
    /\ UNCHANGED main_vars

NextLog == ParseLog

SpecLog == InitLog /\ [][NextLog]_vars

(***************************************************************************)
(* Properties                                                              *)
(***************************************************************************)
\* the cache entry of n is as the run loaded it (or absent as it was)
Same(n) ==
    /\ n \in DOMAIN cache.repos <=> n \in DOMAIN cache0.repos
    /\ n \in DOMAIN cache.repos => cache.repos[n] = cache0.repos[n]

\* the run loaded an entry with weeks for n
HadWeeks(n) ==
    /\ n \in DOMAIN cache0.repos
    /\ DOMAIN cache0.repos[n].weeks # {}

\* the cache holds for n exactly one bucket per week of ws, with its counts
HoldsWeeks(n, ws) ==
    /\ n \in DOMAIN cache.repos
    /\ DOMAIN cache.repos[n].weeks = {StrOf(ws[i].w) : i \in DOMAIN ws}
    /\ \A i \in DOMAIN ws :
         /\ cache.repos[n].weeks[StrOf(ws[i].w)].a = ws[i].a
         /\ cache.repos[n].weeks[StrOf(ws[i].w)].d = ws[i].d

\* the last statistics call returned READY with these weeks
Ready == last.pass \in {1, 2} /\ last.status = 200 /\ ~last.is_none

ZeroWeeks(ws) == \A i \in DOMAIN ws : ws[i].a = 0 /\ ws[i].d = 0

\* the clone was called and returned
CloneReturned == last.cloned /\ last.clone_kind \in {"ok", "timeout", "failed"}

\* C1: when the statistics call of pass 1 answers 304, the repository's
\* cache entry stays exactly as loaded, clone_and_count is not called and
\* the client returns the token it was given.
C1_UnchangedKeepsEntry ==
    (last.pass = 1 /\ last.resp_status = 304) =>
        /\ Same(last.full_name)
        /\ ~last.cloned
        /\ clones[last.full_name] = 0
        /\ last.status = 304
        /\ last.etag = last.sent_etag

C1_Witness ==
    /\ last.pass = 1
    /\ last.resp_status = 304
    /\ HadWeeks(last.full_name)
    /\ pc = "done"

\* C2: in either pass, READY with a non-empty all-zero week list calls
\* clone_and_count exactly once for the repository, and when the clone
\* returns the cache entry holds the clone's weeks (possibly none).
C2_AllZeroFallsBack ==
    (Ready /\ Len(last.weeks) > 0 /\ ZeroWeeks(last.weeks)) =>
        /\ last.cloned
        /\ clones[last.full_name] = 1
        /\ CloneReturned => HoldsWeeks(last.full_name, last.clone_weeks)

C2_Witness ==
    /\ Ready
    /\ Len(last.weeks) > 0
    /\ ZeroWeeks(last.weeks)
    /\ last.clone_kind = "ok"
    /\ ~ZeroWeeks(last.clone_weeks)
    /\ HoldsWeeks(last.full_name, last.clone_weeks)

\* C3: a repository that is COMPUTING in both passes and whose loaded entry
\* has weeks keeps that entry, and clone_and_count is never called for it.
C3_StillComputingKeepsCache ==
    \A n \in RepoNames :
        (status1[n] = 202 /\ status2[n] = 202 /\ HadWeeks(n)) =>
            Same(n) /\ clones[n] = 0

C3_Witness ==
    /\ pc = "done"
    /\ \E n \in RepoNames : status1[n] = 202 /\ status2[n] = 202 /\ HadWeeks(n)

\* C4: a repository that is COMPUTING in both passes and has no loaded entry
\* with weeks gets clone_and_count called exactly once, in pass 2, and when
\* the clone returns the cache has an entry with the clone's weeks: an
\* entry without weeks when the clone gives none.
C4_StillComputingFallsBack ==
    (last.pass = 2 /\ last.status = 202 /\ ~HadWeeks(last.full_name)) =>
        /\ status1[last.full_name] = 202
        /\ last.cloned
        /\ clones[last.full_name] = 1
        /\ CloneReturned => HoldsWeeks(last.full_name, last.clone_weeks)

C4_Witness ==
    /\ last.pass = 2
    /\ last.status = 202
    /\ last.full_name \notin DOMAIN cache0.repos
    /\ last.clone_kind = "timeout"
    /\ last.full_name \in DOMAIN cache.repos
    /\ DOMAIN cache.repos[last.full_name].weeks = {}

C6_OtherStatusFails ==
    (last.pass \in {1, 2} /\ last.resp_status \notin {0, 200, 202, 304}) =>
        Same(last.full_name) /\ ~last.cloned

\* C7 (as claimed): an error of a statistics call does not end the run.
C7_StatsErrorKeepsRunning ==
    ~(pc = "aborted" /\ exc.at \in {"stats1", "stats2"})

\* C8 (as claimed): when the clone times out or fails for a repository whose
\* loaded entry has weeks, that entry is retained.
C8_FailedCloneKeepsEntry ==
    (last.cloned /\ last.clone_kind \in {"timeout", "failed"}
        /\ HadWeeks(last.full_name)) => Same(last.full_name)

\* C9: a step never replaces or removes an entry of the discovery result; a
\* listing that succeeds adds exactly the repositories it names that have no
\* entry yet, under the credential being listed; nothing else adds entries.
\* So each listed repository has one entry, with the first credential whose
\* listing named it.
C9_Step ==
    /\ \A n \in DOMAIN all_repos :
         n \in DOMAIN all_repos' /\ all_repos'[n] = all_repos[n]
    /\ IF pc = "discover" /\ tok' = tok + 1 /\ listing'.raised = "none"
       THEN /\ DOMAIN all_repos' =
                 DOMAIN all_repos \cup
                    {listing'.repos[i].full_name : i \in DOMAIN listing'.repos}
            /\ \A n \in DOMAIN all_repos' \ DOMAIN all_repos :
                 /\ all_repos'[n].label = active_tokens[tok]
                 /\ all_repos'[n].token = TOKENS[active_tokens[tok]]
                 /\ all_repos'[n].repo.full_name = n
       ELSE DOMAIN all_repos' = DOMAIN all_repos

C9_FirstSeenWins == [][C9_Step]_vars

C9_Witness ==
    /\ listing.label = "LOME-AI"
    /\ listing.raised = "none"
    /\ \E i \in DOMAIN listing.repos :
         /\ listing.repos[i].full_name \in DOMAIN all_repos
         /\ all_repos[listing.repos[i].full_name].label = "personal"
    /\ \E i \in DOMAIN listing.repos :
         /\ listing.repos[i].full_name \in DOMAIN all_repos
         /\ all_repos[listing.repos[i].full_name].label = "LOME-AI"

\* C10 (as claimed): an error of a credential's listing does not end the run.
C10_ListingErrorKeepsRunning ==
    ~(pc = "aborted" /\ exc.at = "discover")

(***************************************************************************)
(* Rate limit and log redaction                                            *)
(***************************************************************************)
\* a response of the statistics endpoint was received with a quota below
\* the floor
LowQuotaSeen ==
    /\ last.pass # 0
    /\ last.resp_status # 0
    /\ last.quota.present
    /\ last.quota.remaining < RATE_LIMIT_FLOOR

\* C11 (as claimed): whatever the status of a statistics response, when its
\* remaining quota is below the floor the run has waited for the reset (at
\* least one second) before it goes on.
C11_LowQuotaAlwaysWaits ==
    LowQuotaSeen => last.waited >= Max(last.quota.reset - Now, 1)

\* C17 (as claimed): no log line of a statistics call names a private
\* repository; it is named by its redacted display name only.
C17_PrivateNeverLogged ==
    \A n \in RepoNames :
        RepoRecord(n).private => last.warned # n /\ last.display.name # n

(***************************************************************************)
(* Aggregation                                                             *)
(***************************************************************************)
\* the (repository, week) pairs the aggregated cache holds
Held(c) ==
    {p \in (DOMAIN c.repos) \X (1..MaxAggWeeks) :
        StrOf(WeekStart(p[2])) \in DOMAIN c.repos[p[1]].weeks}

\* the sum of one field over a set of held pairs, each counted once
RECURSIVE SumOver(_, _, _)
SumOver(c, held, field) ==
    IF held = {} THEN 0
    ELSE LET p == CHOOSE x \in held : TRUE
         IN  c.repos[p[1]].weeks[StrOf(WeekStart(p[2]))][field]
             + SumOver(c, held \ {p}, field)

\* the result of the window of a label
Window(label) ==
    probe.stats[CHOOSE i \in DOMAIN probe.stats : probe.stats[i].label = label]

Spans == {<<"Last Year", 365>>, <<"Last Month", 30>>, <<"Last Week", 7>>}

\* the held pairs whose week starts at or after the timestamp b
From(c, b) == {p \in Held(c) : WeekStart(p[2]) >= b}

\* C13: a bounded window with lower bound b, the whole-second timestamp of
\* now minus the span, counts a cached week once when its week start is at
\* or after b, the week starting exactly at b included, and not otherwise.
C13_WindowCountsFromBound ==
    probe.kind = "agg_out" =>
        \A s \in Spans :
            LET b == probe.now.sec - s[2] * 86400
                w == Window(s[1])
            IN  /\ w.additions = SumOver(probe.cache, From(probe.cache, b), "a")
                /\ w.deletions = SumOver(probe.cache, From(probe.cache, b), "d")
                /\ w.total = w.additions + w.deletions

\* a week starts exactly at the bound of a window and is counted, an
\* earlier week is held and left out
C13_Witness ==
    /\ probe.kind = "agg_out"
    /\ \E s \in Spans :
         LET b == probe.now.sec - s[2] * 86400
         IN  /\ \E p \in Held(probe.cache) : WeekStart(p[2]) = b
             /\ \E p \in Held(probe.cache) : WeekStart(p[2]) < b
             /\ Window(s[1]).total > 0
             /\ Window(s[1]).total < Window("All Time").total

(***************************************************************************)
(* The cache file                                                          *)
(***************************************************************************)
\* C14 (as claimed): whenever the process can stop, the cache file is the
\* complete file of before the run or the complete new cache, never a
\* truncated or partly written one.
C14_FileNeverPartial ==
    /\ file.kind # "truncated"
    /\ file.kind = "json" /\ pc \notin {"start", "load", "aborted", "exit"} =>
           file.data = IF pc = "done" THEN cache ELSE cache0

\* C15 (as claimed): loading the cache never raises, whatever the file holds.
C15_LoadNeverRaises ==
    ~(pc = "aborted" /\ exc.at = "load")

\* C16 (as claimed): the clone fallback never raises to main, whatever the
\* git commands do.
C16_FallbackNeverRaises ==
    ~(pc = "aborted" /\ exc.at \in {"clone1", "clone2"})

(***************************************************************************)
(* The history walk                                                        *)
(***************************************************************************)
IsStamp(l) == Len(l.parts) = 1 /\ l.parts[1].t = "int"

\* the timestamp line a line of the output is attributed to: the nearest
\* one before it, 0 when there is none
StampOf(i) ==
    LET before == {j \in 1..(i - 1) : IsStamp(probe.lines[j])}
    IN  IF before = {} THEN 0
        ELSE CHOOSE j \in before : \A k \in before : k <= j

\* the change lines that count: after a timestamp, with two counts that are
\* numbers or "-"
Counted ==
    {i \in DOMAIN probe.lines :
        /\ Len(probe.lines[i].parts) >= 3
        /\ StampOf(i) # 0
        /\ probe.lines[i].parts[1].t # "text"
        /\ probe.lines[i].parts[2].t # "text"}

Stamp(i) == probe.lines[StampOf(i)].parts[1].v

\* the counted lines whose timestamp falls in the week starting at key
InWeek(key) == {i \in Counted : key <= Stamp(i) /\ Stamp(i) < key + 604800}

\* the count of a part: "-" is zero
CountOf(i, p) ==
    IF probe.lines[i].parts[p].t = "dash" THEN 0 ELSE probe.lines[i].parts[p].v

RECURSIVE SumLines(_, _)
SumLines(ls, p) ==
    IF ls = {} THEN 0
    ELSE LET i == CHOOSE x \in ls : TRUE
         IN  CountOf(i, p) + SumLines(ls \ {i}, p)

\* C18: the result has one entry per week that holds a counted change line,
\* keyed by the Monday 00:00:00 UTC that starts the week, in ascending key
\* order; the entry sums the counts of the week's lines, "-" counting zero;
\* lines before any timestamp and lines with a count that is no number are
\* left out.
C18_WeekBuckets ==
    probe.kind = "log_out" =>
        /\ \A e \in DOMAIN probe.weeks :
             LET key == probe.weeks[e].w
             IN  /\ key % 604800 = 345600
                 /\ InWeek(key) # {}
                 /\ probe.weeks[e].a = SumLines(InWeek(key), 1)
                 /\ probe.weeks[e].d = SumLines(InWeek(key), 2)
        /\ \A i \in Counted :
             \E e \in DOMAIN probe.weeks : i \in InWeek(probe.weeks[e].w)
        /\ \A e, f \in DOMAIN probe.weeks :
             e < f => probe.weeks[e].w < probe.weeks[f].w

\* the output gives two weeks, the later one first; a week sums two lines,
\* one of them with a binary count
C18_Witness ==
    /\ probe.kind = "log_out"
    /\ Len(probe.weeks) = 2
    /\ Stamp(CHOOSE i \in Counted : \A j \in Counted : i <= j) >= probe.weeks[2].w
    /\ \E e \in DOMAIN probe.weeks :
         /\ Cardinality(InWeek(probe.weeks[e].w)) = 2
         /\ \E i \in InWeek(probe.weeks[e].w) : probe.lines[i].parts[1].t = "dash"

(***************************************************************************)
(* The two passes                                                          *)
(***************************************************************************)
\* the repositories that answered 202 in pass 1
Deferred == {n \in DOMAIN all_repos : status1[n] = 202}

\* pass 1 is over and main went on
Past1 == pc \in {"pass2", "summary", "save", "saving", "done"}

\* pass 2 is over, or was not needed, and main went on
Past2 == pc \in {"summary", "save", "saving", "done"}

\* C19: a request of pass 2 is made only when every discovered repository
\* had its request of pass 1; the wait happens once when a repository was
\* deferred and never otherwise; pass 2 requests the deferred repositories
\* and no other, each once, in sorted order, without a conditional token.
C19_Pass2Schedule ==
    /\ (pc = "pass2" \/ \E n \in RepoNames : requests[n][2] > 0) =>
           \A n \in DOMAIN all_repos : requests[n][1] = 1 /\ status1[n] # 0
    /\ sleeps = IF (Past1 \/ exc.at \in {"stats2", "clone2"}) /\ pending_202 # <<>>
                THEN 1 ELSE 0
    /\ Past1 => [i \in DOMAIN pending_202 |-> pending_202[i].full_name]
                    = Sorted(Deferred)
    /\ \A n \in RepoNames :
           requests[n][2] <= 1 /\ (requests[n][2] = 1 => n \in Deferred)
    /\ pc = "pass2" =>
           {n \in RepoNames : requests[n][2] = 1}
               = {pending_202[i].full_name : i \in 1..(idx - 1)}
    /\ Past2 => \A n \in Deferred : requests[n][2] = 1
    /\ last.pass = 2 => last.sent_etag = None

\* both repositories were deferred and fetched again after one wait, and one
\* of them had a cached entry with an etag
C19_Witness ==
    /\ pc = "done"
    /\ Deferred = RepoNames
    /\ sleeps = 1
    /\ \A n \in RepoNames : requests[n] = <<1, 1>>
    /\ "ctf05/a" \in DOMAIN cache0.repos
    /\ last.full_name = "ctf05/a"

\* C20 (as claimed): when the run is over, every discovered repository has
\* reached a final state, after at most one request per pass and at most
\* one clone, with no second request unless the first answered 202.
C20_EveryRepoSettles ==
    /\ \A n \in RepoNames :
           /\ requests[n][1] <= 1 /\ requests[n][2] <= 1
           /\ clones[n] <= 1
           /\ requests[n][2] = 1 => status1[n] = 202
    /\ pc \in {"done", "aborted"} =>
           \A n \in DOMAIN all_repos :
               /\ status1[n] # 0
               /\ status1[n] = 202 => status2[n] # 0

(***************************************************************************)
(* The frame of a repository's processing                                  *)
(***************************************************************************)
\* the repository a step makes a statistics request for, "" when it makes none
Handled == IF requests' # requests THEN last'.full_name ELSE ""

\* the cache restricted to the repositories of S
Only(c, S) == [c EXCEPT !.repos = [n \in S |-> c.repos[n]]]

\* the repositories the loaded cache holds and this run made no request for
Untouched == {n \in DOMAIN cache0.repos : requests[n] = <<0, 0>>}

C21_Step ==
    /\ pc # "load" =>
           /\ \A n \in DOMAIN cache.repos :
                  n # Handled =>
                      n \in DOMAIN cache'.repos /\ cache'.repos[n] = cache.repos[n]
           /\ DOMAIN cache'.repos \subseteq DOMAIN cache.repos \cup {Handled}
    /\ pc' = "done" =>
           /\ file'.kind = "json"
           /\ \A n \in Untouched :
                  n \in DOMAIN file'.data.repos /\ file'.data.repos[n] = cache0.repos[n]
    /\ pc = "summary" =>
           \A n \in Untouched, now \in Clock, i \in DOMAIN TIME_FRAMES :
               LET own == compute_timeframes(Only(cache0, {n}), now)[i]
                   rest == compute_timeframes(
                               Only(cache, DOMAIN cache.repos \ {n}), now)[i]
               IN  /\ stats'[i].additions = own.additions + rest.additions
                   /\ stats'[i].deletions = own.deletions + rest.deletions

\* C21: a step that processes a repository leaves every other entry of the
\* cache as it was and creates no other entry; the entries of repositories
\* the run made no request for, discovered or not, are saved as they were
\* loaded and count in every window of the aggregate with their own weeks.
C21_OwnEntryOnly == [][C21_Step]_vars

\* the run is over: the cache was loaded with an entry, with additions, of a
\* repository that was not discovered; the other repository was processed
\* and its entry written; the saved file holds the first entry as loaded and
\* the aggregate counts it
C21_Witness ==
    /\ pc = "done"
    /\ \E n \in Untouched, m \in DOMAIN all_repos :
         /\ n \notin DOMAIN all_repos
         /\ \E k \in DOMAIN cache0.repos[n].weeks : cache0.repos[n].weeks[k].a > 0
         /\ m \in DOMAIN cache.repos
         /\ m \in DOMAIN cache0.repos => cache.repos[m] # cache0.repos[m]
         /\ file.data.repos[n] = cache0.repos[n]
         /\ stats[1].additions > 0

====
